---- MODULE Spec2Model ----
(***************************************************************************)
(* Distant directional sensor (src/sensors/distant.cpp).                   *)
(*                                                                         *)
(* Lengths are fixed-point numbers with One units per 1.0; directions and  *)
(* frame axes are integer unit vectors; a Spectrum weight is the fraction  *)
(* num/den, where den = 0 is the IEEE result of a division by zero         *)
(* (infinity when num # 0, NaN when num = 0).                              *)
(***************************************************************************)
EXTENDS Integers, Sequences, FiniteSets, TLC

VARIABLES variant, props, phase, sensor, expanded, error, log, scene,
          reattached, call, threads

vars == <<variant, props, phase, sensor, expanded, error, log, scene,
          reattached, call, threads>>

----------------------------------------------------------------------------
(* Bounds of the model: the largest scene radius (in units of 1.0), the    *)
(* largest spectral weight, the largest sampling density returned by the   *)
(* target shape, the number of concurrent callers                          *)

MaxRadius == 1
MaxWavWeight == 2
MaxPdf == 2
NumThreads == 2

(* Program constants: 1.f and math::RayEpsilon in fixed point (the epsilon *)
(* is one unit), math::Pi as the fraction PiNum / PiDen, the number of     *)
(* lanes of a packet Float                                                 *)

One == 4
RayEpsilon == 1
PiNum == 22
PiDen == 7
PacketSize == 2

----------------------------------------------------------------------------
(* Vector arithmetic *)

Abs(x) == IF x < 0 THEN -x ELSE x
Max(a, b) == IF a >= b THEN a ELSE b
sqr(x) == x * x

Vec(x, y, z) == <<x, y, z>>
VAdd(a, b) == <<a[1] + b[1], a[2] + b[2], a[3] + b[3]>>
VSub(a, b) == <<a[1] - b[1], a[2] - b[2], a[3] - b[3]>>
VScale(a, k) == <<a[1] * k, a[2] * k, a[3] * k>>
VNeg(a) == <<-a[1], -a[2], -a[3]>>
dot(a, b) == a[1] * b[1] + a[2] * b[2] + a[3] * b[3]
cross(a, b) == <<a[2] * b[3] - a[3] * b[2],
                 a[3] * b[1] - a[1] * b[3],
                 a[1] * b[2] - a[2] * b[1]>>
squared_norm(a) == dot(a, a)

\* normalize() of an axis-aligned vector: its length is the sum of the
\* absolute values of its components
normalize(v) ==
    LET len == Abs(v[1]) + Abs(v[2]) + Abs(v[3])
    IN  <<v[1] \div len, v[2] \div len, v[3] \div len>>

sign(z) == IF z < 0 THEN -1 ELSE 1
mulsign(v, z) == v * sign(z)
mulsign_neg(v, z) == -(v * sign(z))

\* coordinate_system() of a unit axis-aligned vector n (Duff et al.):
\* a = -1 / (sign + n.z); the products with a are exact on these inputs
coordinate_system(n) ==
    LET sgn == sign(n[3])
        den == Abs(sgn + n[3])
        xxa == IF n[1] = 0 THEN 0 ELSE -(sqr(n[1]) \div den)
        yya == IF n[2] = 0 THEN 0 ELSE -(sqr(n[2]) \div den)
        b   == IF n[1] * n[2] = 0 THEN 0 ELSE -((n[1] * n[2]) \div den)
    IN  << <<mulsign(xxa, n[3]) + 1, mulsign(b, n[3]), mulsign_neg(n[1], n[3])>>,
           <<b, sgn + yya, -n[2]>> >>

\* A transform is the image (s, t, d) of the local x, y and z axes
Identity == [s |-> Vec(1, 0, 0), t |-> Vec(0, 1, 0), d |-> Vec(0, 0, 1)]

look_at(origin, target, up) ==
    LET dir    == normalize(VSub(target, origin))
        left   == normalize(cross(up, dir))
        new_up == cross(dir, left)
    IN  [s |-> left, t |-> new_up, d |-> dir]

transform_affine(trafo, v) ==
    VAdd(VAdd(VScale(trafo.s, v[1]), VScale(trafo.t, v[2])),
         VScale(trafo.d, v[3]))

----------------------------------------------------------------------------
(* Property sets *)

Origin3 == Vec(0, 0, 0)
FarPoint == Vec(0, 0, 2 * One)

Directions == {Vec(0, 0, -2)}
ToWorlds == {[s |-> Vec(0, 0, 1), t |-> Vec(1, 0, 0), d |-> Vec(0, 1, 0)]}
TargetPoints == {Origin3, FarPoint}
FilmSizes == {<<1, 1>>, <<2, 1>>}
FilterRadii == {One \div 2, One}

\* a property value: a point, a Shape object, an object that is not a Shape,
\* or a value of another type (string)
PointValues == {[type |-> "point", point |-> p, id |-> "null"] : p \in TargetPoints}
ShapeValue(id) == [type |-> "shape", point |-> Origin3, id |-> id]
ObjectValue == [type |-> "object", point |-> Origin3, id |-> "bsdf"]
StringValue == [type |-> "string", point |-> Origin3, id |-> "null"]
NoValue == [type |-> "none", point |-> Origin3, id |-> "null"]

PropertySets ==
    { [keys |-> ks, direction |-> dv, to_world |-> tw, ray_target |-> rt,
       ray_origin |-> ro, film_size |-> fs, filter_radius |-> fr] :
        ks \in SUBSET {"direction", "to_world", "ray_target", "ray_origin"},
        dv \in Directions, tw \in ToWorlds,
        rt \in PointValues \cup {ShapeValue("target_shape"), ObjectValue,
                                 StringValue, NoValue},
        ro \in {ShapeValue("origin_shape"), ObjectValue, NoValue},
        fs \in FilmSizes, fr \in FilterRadii }

\* Only property sets in which an absent key has no value are distinct inputs
WellFormed(p) ==
    /\ ("ray_target" \in p.keys) <=> (p.ray_target.type # "none")
    /\ ("ray_origin" \in p.keys) <=> (p.ray_origin.type # "none")
    
has_property(p, name) == name \in p.keys

\* Properties::point3f: the value, or a std::runtime_error on another type;
\* the property set itself is const
point3f(p, name) ==
    LET v == IF name = "ray_target" THEN p.ray_target ELSE p.ray_origin
    IN  [ok |-> has_property(p, name) /\ v.type = "point", value |-> v.point]

\* (variant of object_as_shape: the dynamic_cast result is not checked)
object_unchecked(p, name) ==
    LET v == IF name = "ray_target" THEN p.ray_target ELSE p.ray_origin
    IN  IF has_property(p, name) /\ v.type \in {"shape", "object"}
        THEN v.id ELSE "null"

\* Properties::object followed by dynamic_cast<Shape *>: null unless the
\* value is an object that is a Shape
object_as_shape(p, name) ==
    LET v == IF name = "ray_target" THEN p.ray_target ELSE p.ray_origin
    IN  IF has_property(p, name) /\ v.type = "shape" THEN v.id ELSE "null"

----------------------------------------------------------------------------
(* DistantSensor: the resolver *)

\* DistantSensor::DistantSensor
DistantSensor(p) ==
    [m_props |-> p,
     m_ray_target_type |->
        IF has_property(p, "ray_target")
        THEN IF point3f(p, "ray_target").ok THEN "Point" ELSE "Shape"
        ELSE "None",
     m_ray_origin_type |->
        IF has_property(p, "ray_origin") THEN "Shape" ELSE "BoundingSphere"]

NoSensor == [m_props |-> "none"]

\* 'direction' and 'to_world' are exclusive
transform_conflict(p) ==
    has_property(p, "direction") /\ has_property(p, "to_world")

\* (variant of film_size_invalid: the film size is not checked)
film_size_unchecked(p) == FALSE

\* Check film size
film_size_invalid(p) == p.film_size # <<1, 1>>

\* The reconstruction filter is wider than 0.5 + RayEpsilon: Log(Warn, ...)
filter_warning(p) == p.filter_radius > (One \div 2) + RayEpsilon

\* DistantSensorImpl::DistantSensorImpl. No branch assigns m_ray_target_point
\* unless TargetType is Point: the member then stays uninitialized, its
\* content is picked by each read (sample_ray_impl) and the value kept here
\* for it is never used
DistantSensorImpl(TargetType, OriginType, p) ==
    LET both      == transform_conflict(p)
        direction == normalize(p.direction)
        up        == coordinate_system(direction)[1]
        base_trafo == IF has_property(p, "to_world") THEN p.to_world ELSE Identity
        trafo     == IF has_property(p, "direction")
                     THEN look_at(Origin3, VAdd(Origin3, direction), up)
                     ELSE base_trafo
        tpoint    == point3f(p, "ray_target")
        tshape    == IF TargetType = "Shape"
                     THEN object_as_shape(p, "ray_target") ELSE "null"
        oshape    == IF OriginType = "Shape"
                     THEN object_as_shape(p, "ray_origin") ELSE "null"
        err       == IF both THEN "direction_and_to_world"
                     ELSE IF TargetType = "Point" /\ ~tpoint.ok
                          THEN "ray_target_not_point"
                     ELSE IF TargetType = "Shape" /\ tshape = "null"
                          THEN "invalid_ray_target"
                     ELSE IF OriginType = "Shape" /\ oshape = "null"
                          THEN "invalid_ray_origin"
                     ELSE IF film_size_invalid(p) THEN "film_size"
                     ELSE "none"
    IN  [err  |-> err,
         warn |-> err = "none" /\ filter_warning(p),
         self |-> [TargetType |-> TargetType,
                   OriginType |-> OriginType,
                   m_world_transform |-> trafo,
                   m_ray_target_point |->
                       IF TargetType = "Point" THEN tpoint.value ELSE Origin3,
                   m_ray_target_shape |-> tshape,
                   m_ray_origin_shape |-> oshape,
                   m_bsphere |-> [center |-> Origin3, radius |-> 0]]]

\* (variant of expand: the Point/Shape case instantiates the bounding-sphere
\* specialization)
expand_misdispatch(self) ==
    IF self.m_ray_target_type = "Point"
    THEN <<"Point", "BoundingSphere">>
    ELSE <<self.m_ray_target_type, self.m_ray_origin_type>>

\* DistantSensor::expand: the specialization the switch instantiates
expand(self) ==
    CASE self.m_ray_target_type = "Shape" ->
            (CASE self.m_ray_origin_type = "BoundingSphere" -> <<"Shape", "BoundingSphere">>
               [] self.m_ray_origin_type = "Shape" -> <<"Shape", "Shape">>)
      [] self.m_ray_target_type = "Point" ->
            (CASE self.m_ray_origin_type = "BoundingSphere" -> <<"Point", "BoundingSphere">>
               [] self.m_ray_origin_type = "Shape" -> <<"Point", "Shape">>)
      [] self.m_ray_target_type = "None" ->
            (CASE self.m_ray_origin_type = "BoundingSphere" -> <<"None", "BoundingSphere">>
               [] self.m_ray_origin_type = "Shape" -> <<"None", "Shape">>)

----------------------------------------------------------------------------
(* Scene attachment *)

\* The scenes: the bounding sphere of the scene's bbox, of radius 0 .. MaxRadius;
\* the scenes of even radius are centered off the origin
SceneCenter(r) == IF r % 2 = 0 THEN Vec(One, 0, 0) ELSE Origin3
Scenes == { [center |-> SceneCenter(r), radius |-> r * One] : r \in 0..MaxRadius }
NoScene == [center |-> Origin3, radius |-> -1]

\* Scene::bbox().bounding_sphere()
bounding_sphere(sc) == [center |-> sc.center, radius |-> sc.radius]

\* (variant of set_scene: the radius is grown from the stored one)
set_scene_incremental(self, sc) ==
    LET bs == bounding_sphere(sc)
    IN  [self EXCEPT !.m_bsphere =
            [center |-> bs.center,
             radius |-> Max(RayEpsilon,
                            (Max(self.m_bsphere.radius, bs.radius)
                                * (One + RayEpsilon)) \div One)]]

\* DistantSensorImpl::set_scene
set_scene(self, sc) ==
    LET bs == bounding_sphere(sc)
    IN  [self EXCEPT !.m_bsphere =
            [center |-> bs.center,
             radius |-> Max(RayEpsilon,
                            (bs.radius * (One + RayEpsilon)) \div One)]]

----------------------------------------------------------------------------
(* Ray sampling *)

\* A Spectrum value num/den; den = 0 is what a division by zero leaves
Weight(n, d) == [num |-> n, den |-> d]
ZeroWeight == Weight(0, 1)
IsZero(w) == w.num = 0 /\ w.den # 0

\* sample_wavelength: wavelengths and spectral weight of a wavelength sample
sample_wavelength(wavelength_sample) ==
    [wavelengths |-> 400 + 100 * wavelength_sample,
     wav_weight  |-> wavelength_sample]

\* MTS_MASK_ARGUMENT: scalar variants force the mask to true
mask_argument(var, active) == IF var = "scalar" THEN TRUE ELSE active

\* spectrum & mask
mask_weight(w, active) == IF active THEN w ELSE ZeroWeight

\* warp::square_to_uniform_disk_concentric on samples given in halves; on the
\* samples of ApertureSamples rp = 0, so that phi is 0 or pi/2 and sincos is
\* exact
square_to_uniform_disk_concentric(sample) ==
    LET x == sample[1] - 1
        y == sample[2] - 1
        is_zero == x = 0 /\ y = 0
        quadrant_1_or_3 == Abs(x) < Abs(y)
        r == IF quadrant_1_or_3 THEN y ELSE x
        c == IF quadrant_1_or_3 /\ ~is_zero THEN 0 ELSE 1
        s == IF quadrant_1_or_3 /\ ~is_zero THEN 1 ELSE 0
    IN  <<r * c, r * s>>

Times == {0, 1}
ApertureSamples == {<<1, 1>>, <<0, 1>>, <<1, 0>>}
Normals == {Vec(0, 0, 1)}
PositionSamples ==
    { [p |-> Origin3, n |-> n, pdf |-> k] : n \in Normals, k \in 0..MaxPdf }
Intersections == {[valid |-> FALSE, p |-> Origin3],
                  [valid |-> TRUE, p |-> Vec(0, 0, 3 * One)]}
NoPositionSample == [p |-> Origin3, n |-> Vec(0, 0, 1), pdf |-> 1]
NoIntersection == [valid |-> TRUE, p |-> Origin3]

\* Frame3f::cos_theta
cos_theta(v) == v[3]

\* 2. Set ray direction
ray_direction(self) == transform_affine(self.m_world_transform, Vec(0, 0, 1))

\* Point3f ray_target = m_ray_target_point: uninit is what the read of the
\* member yields when no constructor branch assigned it
read_ray_target_point(self, uninit) ==
    IF self.TargetType = "Point" THEN self.m_ray_target_point ELSE uninit

\* (variant of bsphere_cross_section: the radius is not squared)
bsphere_circumference(radius) == Weight(PiNum * radius * One, PiDen * sqr(One))

\* math::Pi * sqr(m_bsphere.radius)
bsphere_cross_section(radius) == Weight(PiNum * sqr(radius), PiDen * sqr(One))

\* 3.1. Sample target point; ray_target0 is the initial value of the local
\* ray_target, ps is what the target shape's sample_position returns for
\* (time, aperture_sample)
sample_target(self, ray_target0, wav_weight, d, aperture_sample, ps) ==
    IF self.TargetType = "Point"
    THEN [ray_target |-> ray_target0,
          ray_weight |-> Weight(wav_weight * cos_theta(VNeg(d)), 1)]
    ELSE IF self.TargetType = "Shape"
    THEN [ray_target |-> ps.p,
          ray_weight |-> Weight(wav_weight * dot(VNeg(d), ps.n), ps.pdf)]
    ELSE LET offset == square_to_uniform_disk_concentric(aperture_sample)
             perp_offset == transform_affine(self.m_world_transform,
                                             Vec(offset[1], offset[2], 0))
         IN  [ray_target |-> VAdd(self.m_bsphere.center,
                                  VScale(perp_offset, self.m_bsphere.radius)),
              ray_weight |->
                  LET area == bsphere_cross_section(self.m_bsphere.radius)
                  IN  Weight(wav_weight * area.num, area.den)]

\* (variant of origin_active: the intersection's validity is dropped)
origin_active_unmasked(active, si) == active

\* active &= si.is_valid()
origin_active(active, si) == active /\ si.valid

\* 3.2. Determine origin point; si is what the origin shape's ray_intersect
\* returns for the probe ray (ray_target, -d)
sample_origin(self, d, ray_target, si, active) ==
    IF self.OriginType = "Shape"
    THEN [o |-> si.p, active |-> origin_active(active, si)]
    ELSE IF self.TargetType = "None"
    THEN [o |-> VSub(ray_target, VScale(d, self.m_bsphere.radius)),
          active |-> active]
    ELSE [o |-> VSub(ray_target, VScale(d, 2 * self.m_bsphere.radius)),
          active |-> active]

\* DistantSensorImpl::sample_ray_impl for one sample of the batch
sample_ray_impl(self, var, time, wavelength_sample, lane, uninit) ==
    LET active == mask_argument(var, lane.active)
        aperture_sample == lane.aperture_sample
        ps     == lane.ps
        si     == lane.si
        wl     == sample_wavelength(wavelength_sample)
        d      == ray_direction(self)
        tg     == sample_target(self, read_ray_target_point(self, uninit),
                                wl.wav_weight, d, aperture_sample, ps)
        org    == sample_origin(self, d, tg.ray_target, si, active)
    IN  [ray |-> [o |-> org.o, d |-> d, time |-> time,
                  wavelengths |-> wl.wavelengths],
         weight |-> mask_weight(tg.ray_weight, org.active),
         ray_target |-> tg.ray_target,
         active |-> org.active]

\* DistantSensorImpl::sample_ray
sample_ray(self, var, time, wavelength_sample, lane, uninit) ==
    LET active == mask_argument(var, lane.active)
        r == sample_ray_impl(self, var, time, wavelength_sample,
                             [lane EXCEPT !.active = active], uninit)
    IN  [ray |-> r.ray, weight |-> mask_weight(r.weight, active)]

\* (variant of sample_ray_differential: the differentials are reported)
sample_ray_differential_flagged(self, var, time, wavelength_sample, lane, uninit) ==
    LET active == mask_argument(var, lane.active)
        r == sample_ray_impl(self, var, time, wavelength_sample,
                             [lane EXCEPT !.active = active], uninit)
    IN  [ray |-> [o |-> r.ray.o, d |-> r.ray.d, time |-> r.ray.time,
                  wavelengths |-> r.ray.wavelengths,
                  has_differentials |-> TRUE],
         weight |-> mask_weight(r.weight, active)]

\* DistantSensorImpl::sample_ray_differential
sample_ray_differential(self, var, time, wavelength_sample, lane, uninit) ==
    LET active == mask_argument(var, lane.active)
        r == sample_ray_impl(self, var, time, wavelength_sample,
                             [lane EXCEPT !.active = active], uninit)
    IN  [ray |-> [o |-> r.ray.o, d |-> r.ray.d, time |-> r.ray.time,
                  wavelengths |-> r.ray.wavelengths,
                  has_differentials |-> FALSE],
         weight |-> mask_weight(r.weight, active)]

\* (variant of members_after_sample: the target is cached in the member)
members_cached(self, ray_target) ==
    [self EXCEPT !.m_ray_target_point = ray_target]

\* The sampling methods are const: the members after a call
members_after_sample(self, ray_target) == self

\* The inputs of one sample: the caller's arguments and what the two shapes
\* answer for them
LaneInputs(self) ==
    { [active |-> a, aperture_sample |-> ap, ps |-> ps, si |-> si] :
        a \in BOOLEAN,
        ap \in IF self.TargetType = "None" THEN ApertureSamples ELSE {<<1, 1>>},
        ps \in IF self.TargetType = "Shape" THEN PositionSamples
               ELSE {NoPositionSample},
        si \in IF self.OriginType = "Shape" THEN Intersections
               ELSE {NoIntersection} }

Width(var) == IF var = "scalar" THEN 1 ELSE PacketSize
Lanes == 1..Width(variant)

----------------------------------------------------------------------------
(* Actions *)

NoCall == [op |-> "none"]

Init ==
    /\ variant \in {"scalar", "packet"}
    /\ props \in {p \in PropertySets : WellFormed(p)}
    /\ phase = "new"
    /\ sensor = NoSensor
    /\ expanded = <<>>
    /\ error = "none"
    /\ log = {}
    /\ scene = NoScene
    /\ reattached = FALSE
    /\ call = NoCall
    /\ threads = [t \in 1..NumThreads |-> [pc |-> "idle"]]

\* The plugin manager constructs the generic sensor from the properties
Construct ==
    /\ phase = "new"
    /\ sensor' = DistantSensor(props)
    /\ phase' = "resolved"
    /\ UNCHANGED <<variant, props, expanded, error, log, scene, reattached, call, threads>>

\* ... and expands it into the specialized implementation
Expand ==
    /\ phase = "resolved"
    /\ LET spec == expand(sensor)
             impl == DistantSensorImpl(spec[1], spec[2], sensor.m_props)
         IN  IF impl.err = "none"
             THEN /\ expanded' = <<impl.self>>
                  /\ error' = "none"
                  /\ log' = IF impl.warn THEN {"filter_radius"} ELSE {}
                  /\ phase' = "expanded"
             ELSE /\ expanded' = <<>>
                  /\ error' = impl.err
                  /\ log' = {}
                  /\ phase' = "failed"
    /\ UNCHANGED <<variant, props, sensor, scene, reattached, call, threads>>

Idle == call = NoCall /\ \A t \in DOMAIN threads : threads[t].pc = "idle"

SetScene ==
    /\ phase = "expanded"
    /\ Idle
    /\ \E sc \in Scenes :
         /\ expanded' = <<set_scene(expanded[1], sc)>>
         /\ scene' = sc
    /\ reattached' = (scene # NoScene)
    /\ UNCHANGED <<variant, props, phase, sensor, error, log, call, threads>>

\* One call of a sampling method on a batch of Width(variant) samples
SampleCall(op) ==
    /\ phase = "expanded"
    /\ scene # NoScene
    /\ Idle
    /\ \E time \in Times, ws \in 1..MaxWavWeight,
          in \in [Lanes -> LaneInputs(expanded[1])],
          uninit \in TargetPoints :
         LET self == expanded[1]
             impl == [i \in Lanes |->
                        sample_ray_impl(self, variant, time, ws, in[i], uninit)]
             out  == [i \in Lanes |->
                        IF op = "sample_ray"
                        THEN sample_ray(self, variant, time, ws, in[i], uninit)
                        ELSE sample_ray_differential(self, variant, time, ws,
                                                     in[i], uninit)]
         IN  /\ call' = [op |-> op, time |-> time, wavelength_sample |-> ws,
                         in |-> in, out |-> out,
                         ray_target |-> [i \in Lanes |-> impl[i].ray_target],
                         mask |-> [i \in Lanes |-> impl[i].active]]
             /\ expanded' = <<members_after_sample(self, impl[1].ray_target)>>
    /\ UNCHANGED <<variant, props, phase, sensor, error, log, scene, reattached, threads>>

SampleRay == SampleCall("sample_ray")

SampleRayDifferential == SampleCall("sample_ray_differential")

\* The caller consumes the returned pair
Return ==
    /\ call # NoCall
    /\ call' = NoCall
    /\ UNCHANGED <<variant, props, phase, sensor, expanded, error, log, scene,
                   reattached, threads>>

Next ==
    \/ Construct
    \/ Expand
    \/ SetScene
    \/ SampleRay
    \/ SampleRayDifferential
    \/ Return

Spec == Init /\ [][Next]_vars

----------------------------------------------------------------------------
(* Concurrent sampling: NumThreads workers call the sampling methods of a   *)
(* scalar variant after scene attachment; a call advances in three steps,   *)
(* each of which reads the members it needs when it runs.                   *)

Threads == 1..NumThreads

\* The arguments of the concurrent calls: one time, one wavelength sample and
\* the aperture sample of a rim point of the disk
ThreadTimes == {1}
ThreadWavelengthSamples == {MaxWavWeight}
ThreadApertureSamples == {<<0, 1>>}

InitConc ==
    /\ variant = "scalar"
    /\ props \in {p \in PropertySets :
                    /\ WellFormed(p)
                    /\ p.keys \subseteq {"ray_target", "ray_origin"}
                    /\ p.ray_target.type \in {"none", "point", "shape"}
                    /\ p.ray_origin.type \in {"none", "shape"}
                    /\ p.film_size = <<1, 1>>
                    /\ p.filter_radius = One \div 2}
    /\ phase = "new"
    /\ sensor = NoSensor
    /\ expanded = <<>>
    /\ error = "none"
    /\ log = {}
    /\ scene = NoScene
    /\ reattached = FALSE
    /\ call = NoCall
    /\ threads = [t \in Threads |-> [pc |-> "idle"]]

\* Entry of sample_ray / sample_ray_differential up to step 2 of
\* sample_ray_impl
ThreadBegin(t) ==
    /\ phase = "expanded"
    /\ scene # NoScene
    /\ call = NoCall
    /\ threads[t].pc = "idle"
    /\ \E op \in {"sample_ray", "sample_ray_differential"},
          time \in ThreadTimes, ws \in ThreadWavelengthSamples,
          ap \in ThreadApertureSamples, a \in {TRUE} :
         LET active == mask_argument(variant, a)
             wl == sample_wavelength(ws)
         IN  threads' = [threads EXCEPT ![t] =
                 [pc |-> "target", op |-> op, time |-> time,
                  wavelength_sample |-> ws, aperture_sample |-> ap,
                  active_arg |-> a, active |-> active,
                  wavelengths |-> wl.wavelengths, wav_weight |-> wl.wav_weight,
                  d |-> ray_direction(expanded[1])]]
    /\ UNCHANGED <<variant, props, phase, sensor, expanded, error, log, scene,
                   reattached, call>>

\* Step 3 up to 3.1
ThreadTarget(t) ==
    /\ threads[t].pc = "target"
    /\ \E ps \in IF expanded[1].TargetType = "Shape" THEN PositionSamples
                 ELSE {NoPositionSample},
          uninit \in TargetPoints :
         LET th == threads[t]
             tg == sample_target(expanded[1],
                                 read_ray_target_point(expanded[1], uninit),
                                 th.wav_weight, th.d, th.aperture_sample, ps)
         IN  /\ threads' = [threads EXCEPT ![t] =
                    [pc |-> "origin", op |-> th.op, time |-> th.time,
                     wavelength_sample |-> th.wavelength_sample,
                     aperture_sample |-> th.aperture_sample,
                     active_arg |-> th.active_arg, active |-> th.active,
                     wavelengths |-> th.wavelengths, d |-> th.d, ps |-> ps,
                     ray_target |-> tg.ray_target,
                     ray_weight |-> tg.ray_weight]]
             /\ expanded' = <<members_after_sample(expanded[1], tg.ray_target)>>
    /\ UNCHANGED <<variant, props, phase, sensor, error, log, scene, reattached,
                   call>>

\* Step 3.2 and the return through the calling method
ThreadOrigin(t) ==
    /\ threads[t].pc = "origin"
    /\ \E si \in IF expanded[1].OriginType = "Shape" THEN Intersections
                 ELSE {NoIntersection} :
         LET th  == threads[t]
             org == sample_origin(expanded[1], th.d, th.ray_target, si,
                                  th.active)
             w   == mask_weight(mask_weight(th.ray_weight, org.active),
                                th.active)
             ray == [o |-> org.o, d |-> th.d, time |-> th.time,
                     wavelengths |-> th.wavelengths]
         IN  threads' = [threads EXCEPT ![t] =
                 [pc |-> "done", op |-> th.op, time |-> th.time,
                  wavelength_sample |-> th.wavelength_sample,
                  aperture_sample |-> th.aperture_sample,
                  active_arg |-> th.active_arg, ps |-> th.ps, si |-> si,
                  result |->
                    IF th.op = "sample_ray"
                    THEN [ray |-> ray, weight |-> w]
                    ELSE [ray |-> [o |-> ray.o, d |-> ray.d,
                                   time |-> ray.time,
                                   wavelengths |-> ray.wavelengths,
                                   has_differentials |-> FALSE],
                          weight |-> w]]]
    /\ UNCHANGED <<variant, props, phase, sensor, expanded, error, log, scene,
                   reattached, call>>

ThreadReturn(t) ==
    /\ threads[t].pc = "done"
    /\ threads' = [threads EXCEPT ![t] = [pc |-> "idle"]]
    /\ UNCHANGED <<variant, props, phase, sensor, expanded, error, log, scene,
                   reattached, call>>

Begin == \E t \in Threads : ThreadBegin(t)
Target == \E t \in Threads : ThreadTarget(t)
OriginStep == \E t \in Threads : ThreadOrigin(t)
Finish == \E t \in Threads : ThreadReturn(t)

NextConc ==
    \/ Construct
    \/ Expand
    \/ SetScene
    \/ Begin
    \/ Target
    \/ OriginStep
    \/ Finish

SpecConc == InitConc /\ [][NextConc]_vars

----------------------------------------------------------------------------
(* Properties *)

Engine == expanded[1]
Called == call.op # "none"
CallLanes == DOMAIN call.in

\* The classification of a property set, read off the values
ClassTarget(p) ==
    CASE p.ray_target.type = "none"  -> "None"
      [] p.ray_target.type = "point" -> "Point"
      [] OTHER -> "Shape"
ClassOrigin(p) ==
    IF p.ray_origin.type = "none" THEN "BoundingSphere" ELSE "Shape"

Conflict(p) == {"direction", "to_world"} \subseteq p.keys
BadTarget(p) == p.ray_target.type \in {"object", "string"}
BadOrigin(p) == p.ray_origin.type \in {"object", "string"}
BadFilm(p) == p.film_size # <<1, 1>>
ConfigurationError(p) ==
    Conflict(p) \/ BadTarget(p) \/ BadOrigin(p) \/ BadFilm(p)

Classified ==
    phase # "new" =>
        /\ sensor.m_ray_target_type = ClassTarget(props)
        /\ sensor.m_ray_origin_type = ClassOrigin(props)

\* C1 as stated: for every property set the resolver classifies the two
\* strategies from ray_target and ray_origin, and expand() returns exactly
\* one engine instance of the classified specialization.
C1_ExpandAlwaysReturnsEngine ==
    /\ Classified
    /\ phase \in {"expanded", "failed"} =>
        /\ Len(expanded) = 1
        /\ Engine.TargetType = ClassTarget(props)
        /\ Engine.OriginType = ClassOrigin(props)

\* C1 amended: the classification holds for every property set; expand()
\* returns exactly one engine instance of the classified specialization
\* unless the engine's constructor aborts with a configuration error, which
\* it does exactly for the property sets with a configuration error, and
\* then no instance is returned.
C1_ExpandReturnsClassifiedEngine ==
    /\ Classified
    /\ phase = "expanded" =>
        /\ Len(expanded) = 1
        /\ Engine.TargetType = ClassTarget(props)
        /\ Engine.OriginType = ClassOrigin(props)
        /\ ~ConfigurationError(props)
    /\ phase = "failed" => expanded = <<>> /\ ConfigurationError(props)

C1_Witness ==
    /\ phase = "expanded"
    /\ Len(expanded) = 1
    /\ props.ray_target.type = "point"
    /\ props.ray_origin.type = "shape"
    /\ Engine.TargetType = "Point"
    /\ Engine.OriginType = "Shape"

\* C2: with a Shape origin, a sample whose probe ray misses the origin shape
\* gets a weight of exactly zero and is inactive, no error is raised, and a
\* sample of the same batch whose probe ray hits keeps its active state and
\* its unmasked weight.
C2_InvalidPerSample ==
    (Called /\ Engine.OriginType = "Shape") =>
        /\ error = "none"
        /\ \A i \in CallLanes :
            LET in      == call.in[i]
                active0 == IF variant = "scalar" THEN TRUE ELSE in.active
                w       == sample_target(Engine, call.ray_target[i],
                               sample_wavelength(call.wavelength_sample).wav_weight,
                               Engine.m_world_transform.d,
                               in.aperture_sample, in.ps).ray_weight
            IN  /\ ~in.si.valid =>
                       IsZero(call.out[i].weight) /\ ~call.mask[i]
                /\ in.si.valid =>
                       /\ call.mask[i] = active0
                       /\ active0 => call.out[i].weight = w

C2_Witness ==
    /\ Called
    /\ variant = "packet"
    /\ Engine.OriginType = "Shape"
    /\ ~call.in[1].si.valid
    /\ IsZero(call.out[1].weight)
    /\ call.in[2].si.valid
    /\ call.mask[2]
    /\ ~IsZero(call.out[2].weight)

\* C3: with a BoundingSphere origin the origin of every returned ray lies at
\* a distance of at least the stored radius from the stored center.
C3_OriginOutsideSphere ==
    (Called /\ Engine.OriginType = "BoundingSphere") =>
        \A i \in CallLanes :
            squared_norm(VSub(call.out[i].ray.o, Engine.m_bsphere.center))
                >= sqr(Engine.m_bsphere.radius)

\* C4: with a Shape target the weight of an active sample is
\* spectralWeight * dot(-direction, normal) / pdf, and a pdf of zero gives a
\* weight of zero without a division by zero.
C4_ShapeWeight ==
    (Called /\ Engine.TargetType = "Shape") =>
        \A i \in CallLanes :
            LET ps == call.in[i].ps
                wl == sample_wavelength(call.wavelength_sample)
                d  == call.out[i].ray.d
            IN  /\ ps.pdf = 0 => IsZero(call.out[i].weight)
                /\ (call.mask[i] /\ ps.pdf # 0) =>
                       call.out[i].weight =
                           Weight(wl.wav_weight * dot(VNeg(d), ps.n), ps.pdf)

\* C5: engine construction completes only without both direction and
\* to_world and with a 1x1 film; with both keys or another film size it
\* aborts with an error and no instance; a wide reconstruction filter alone
\* never aborts it (a warning is logged).
C5_ConstructionChecks ==
    phase \in {"expanded", "failed"} =>
        /\ phase = "expanded" =>
               /\ ~Conflict(props) /\ props.film_size = <<1, 1>>
               /\ Len(expanded) = 1
               /\ props.filter_radius > One \div 2 + RayEpsilon
                      => "filter_radius" \in log
        /\ (Conflict(props) \/ BadFilm(props)) =>
               phase = "failed" /\ expanded = <<>> /\ error # "none"
        /\ (~Conflict(props) /\ ~BadFilm(props) /\ ~BadTarget(props)
                /\ ~BadOrigin(props)) => phase = "expanded"

C5_Witness ==
    /\ phase = "failed"
    /\ expanded = <<>>
    /\ error = "film_size"
    /\ props.film_size = <<2, 1>>

\* C6: probing ray_target as a point leaves the entry in place: a point
\* yields Point, an entry that is not a point is read again as an object,
\* creation fails when ray_target is neither a point nor a Shape or when
\* ray_origin is not a Shape.
C6_TargetProbe ==
    /\ phase # "new" =>
        /\ sensor.m_props = props
        /\ props.ray_target.type = "point" => sensor.m_ray_target_type = "Point"
    /\ phase \in {"expanded", "failed"} =>
        /\ (BadTarget(props) \/ BadOrigin(props)) =>
               phase = "failed" /\ expanded = <<>> /\ error # "none"
        /\ (props.ray_target.type = "shape" /\ ~Conflict(props)
                /\ ~BadOrigin(props) /\ ~BadFilm(props)) => phase = "expanded"
        /\ (phase = "expanded" /\ props.ray_target.type = "shape") =>
               /\ Engine.TargetType = "Shape"
               /\ Engine.m_ray_target_shape = props.ray_target.id
        /\ (phase = "expanded" /\ props.ray_target.type = "point") =>
               /\ Engine.TargetType = "Point"
               /\ Engine.m_ray_target_point = props.ray_target.point
        /\ (phase = "expanded" /\ props.ray_origin.type = "shape") =>
               Engine.m_ray_origin_shape = props.ray_origin.id

C6_Witness ==
    /\ phase = "failed"
    /\ props.ray_target.type = "object"
    /\ sensor.m_ray_target_type = "Shape"
    /\ ~Conflict(props) /\ ~BadFilm(props) /\ ~BadOrigin(props)
    /\ error = "invalid_ray_target"

Inflated(r) ==
    LET x == (r * One + r * RayEpsilon) \div One
    IN  IF x < RayEpsilon THEN RayEpsilon ELSE x

\* C7: after any sequence of attachments the stored bounds are those of the
\* scene attached last: its center, and max(eps, r * (1 + eps)) of its
\* radius r.
C7_BoundsOfLastScene ==
    scene # NoScene =>
        /\ phase = "expanded"
        /\ Engine.m_bsphere.center = scene.center
        /\ Engine.m_bsphere.radius = Inflated(scene.radius)

C7_Witness ==
    /\ reattached
    /\ scene.radius = One
    /\ Engine.m_bsphere.radius = One + RayEpsilon

AloneResult(self, th, uninit) ==
    LET lane == [active |-> th.active_arg,
                 aperture_sample |-> th.aperture_sample,
                 ps |-> th.ps, si |-> th.si]
    IN  IF th.op = "sample_ray"
        THEN sample_ray(self, variant, th.time, th.wavelength_sample, lane,
                        uninit)
        ELSE sample_ray_differential(self, variant, th.time,
                                     th.wavelength_sample, lane, uninit)

\* C8: no step of a sampling call changes the engine's members or the scene
\* bounds, under any interleaving each call returns what it returns when
\* executed alone on the same inputs, and only set_scene writes the bounds.
C8_SamplingSideEffectFree ==
    [][ /\ (threads' # threads) => (expanded' = expanded /\ scene' = scene)
        /\ (phase = "expanded" /\ expanded' # expanded) =>
               /\ Idle
               /\ scene' \in Scenes
               /\ expanded' = <<set_scene(Engine, scene')>>
        /\ \A t \in Threads : threads'[t].pc = "done" =>
               \A uninit \in TargetPoints :
                   threads'[t].result = AloneResult(expanded'[1], threads'[t], uninit)
      ]_vars

C8_Witness ==
    /\ threads[1].pc = "done"
    /\ threads[2].pc = "origin"
    /\ threads[1].op = "sample_ray"
    /\ ~IsZero(threads[1].result.weight)

\* The concentric disk offset of the aperture samples
DiskOffset(ap) ==
    CASE ap = <<1, 1>> -> <<0, 0>>
      [] ap = <<0, 1>> -> <<-1, 0>>
      [] ap = <<1, 0>> -> <<0, -1>>

\* C9: without a target the weight of an active sample is
\* spectralWeight * pi * radius^2 for every disk position, the target is
\* center + R (offset, 0) radius, with a BoundingSphere origin the origin is
\* target - direction * radius, and the sample (0.5, 0.5) targets the center.
C9_CrossSectionWeight ==
    (Called /\ Engine.TargetType = "None") =>
        \A i \in CallLanes :
            LET bs     == Engine.m_bsphere
                T      == Engine.m_world_transform
                ap     == call.in[i].aperture_sample
                off    == DiskOffset(ap)
                target == VAdd(bs.center,
                               VScale(VAdd(VScale(T.s, off[1]),
                                           VScale(T.t, off[2])), bs.radius))
                wl     == sample_wavelength(call.wavelength_sample)
            IN  /\ call.mask[i] =>
                       call.out[i].weight =
                           Weight(wl.wav_weight * PiNum * bs.radius * bs.radius,
                                  PiDen * One * One)
                /\ call.ray_target[i] = target
                /\ Engine.OriginType = "BoundingSphere" =>
                       call.out[i].ray.o = VSub(target, VScale(T.d, bs.radius))
                /\ ap = <<1, 1>> => call.ray_target[i] = bs.center

C9_Witness ==
    /\ Called
    /\ Engine.TargetType = "None"
    /\ Engine.OriginType = "BoundingSphere"
    /\ scene = [center |-> Origin3, radius |-> One]
    /\ Engine.m_world_transform.d = Vec(0, 0, -1)
    /\ call.in[1].aperture_sample = <<1, 1>>
    /\ call.mask[1]
    /\ call.ray_target[1] = Origin3
    /\ call.out[1].ray.o = Vec(0, 0, One + RayEpsilon)
    /\ call.out[1].weight.num = call.wavelength_sample * PiNum * sqr(One + RayEpsilon)

\* C10: sample_ray_differential returns the origin, direction, wavelengths,
\* time and weight that sample_ray returns on the same input, and a ray
\* without differentials.
C10_DifferentialAgrees ==
    call.op = "sample_ray_differential" =>
        \A i \in CallLanes : \A uninit \in TargetPoints :
            LET in == call.in[i]
                r  == sample_ray(Engine, variant, call.time,
                                 call.wavelength_sample, in, uninit)
                o  == call.out[i]
            IN  /\ o.ray.o = r.ray.o
                /\ o.ray.d = r.ray.d
                /\ o.ray.wavelengths = r.ray.wavelengths
                /\ o.ray.time = r.ray.time
                /\ o.weight = r.weight
                /\ o.ray.has_differentials = FALSE

C10_Witness ==
    /\ call.op = "sample_ray_differential"
    /\ call.mask[1]
    /\ ~IsZero(call.out[1].weight)
    /\ call.out[1].ray.has_differentials = FALSE

====
